---- MODULE Spec2Model ----
(***************************************************************************)
(* A model of python/enumtest.py: the Card enumeration (two members with   *)
(* enum.auto() values, two with string values), its color() method, and    *)
(* the module-level script that prints every member and one comparison.    *)
(*                                                                         *)
(* The model holds two executions of the script side by side.  Run 1 is    *)
(* the script as written (CLUBS = 'C', SPADES = 'S').  Run 2 is the same   *)
(* script whose class body attaches other, pairwise distinct, values to    *)
(* CLUBS and SPADES.  The second run exists to state the claim that the    *)
(* output does not depend on those values; every other property is stated  *)
(* of both runs.  The two runs share nothing and interleave freely.        *)
(***************************************************************************)
EXTENDS Integers, Sequences, FiniteSets, TLC

VARIABLES
    body,      \* body[r]: the class body of run r, a sequence of <<name, value expression>>
    cls,       \* cls[r]: the Card class object (NoClass until the class statement has run)
    pc,        \* pc[r]: the statement run r executes next
    it,        \* it[r]: how many members the for loop's iterator has produced
    card,      \* card[r]: the loop variable
    out,       \* out[r]: the lines written to standard output, in order
    exitcode,  \* exitcode[r]: the process exit status, -1 while the process runs
    yielded    \* yielded[r]: history of the members the iterator produced (not program state)

vars == <<body, cls, pc, it, card, out, exitcode, yielded>>

Runs == {1, 2}

\* How many values of TagSeq run 2 may attach to CLUBS and SPADES.
NumTags == 3

-----------------------------------------------------------------------------
(* Python values: int and str objects, and the enum.auto() placeholder.    *)

PyInt(i) == [t |-> "int", i |-> i, s |-> ""]
PyStr(s) == [t |-> "str", i |-> 0, s |-> s]
Auto == [t |-> "auto", i |-> 0, s |-> ""]

\* Python's == on the values used here: an int never equals a str.
ValueEq(a, b) == a.t = b.t /\ a.i = b.i /\ a.s = b.s

\* repr() of a value: decimal digits for an int, single quotes around a str
\* (the strings used here hold no quote and no backslash).
PyRepr(v) == IF v.t = "int" THEN ToString(v.i) ELSE "'" \o v.s \o "'"

\* str() of a bool, as print() renders it.
PyStrBool(b) == IF b THEN "True" ELSE "False"

-----------------------------------------------------------------------------
(* The class statement, lines 3-7.                                         *)

\* The class body with the given values for CLUBS and SPADES.
ClassBody(tags) ==
    << <<"HEARTS", Auto>>, <<"DIAMONDS", Auto>>,
       <<"CLUBS", tags[1]>>, <<"SPADES", tags[2]>> >>

\* The body as the script writes it.
CardBody == ClassBody(<<PyStr("C"), PyStr("S")>>)

\* The values run 2 draws from; none is 1 or 2, the values auto() assigns.
TagSeq == <<PyStr("C"), PyStr("S"), PyInt(3), PyStr("X"), PyInt(4), PyStr("Y")>>
TagPool == {TagSeq[i] : i \in 1..NumTags}

\* The first value auto() assigns.
AutoStart == 1

\* Mutant: auto() restarts from AutoStart for every member.
GenerateNextValueStart(last_values) == AutoStart

\* Enum._generate_next_value_: one more than the most recent value that
\* supports + 1 (an int), AutoStart when there is none.
RECURSIVE GenerateNextValue(_)
GenerateNextValue(last_values) ==
    IF last_values = <<>> THEN AutoStart
    ELSE LET n == Len(last_values) IN
         IF last_values[n].t = "int" THEN last_values[n].i + 1
         ELSE GenerateNextValue(SubSeq(last_values, 1, n - 1))

\* The class namespace after the first k assignments of the body: each
\* auto() is replaced by the generated value when the name is assigned.
RECURSIVE EnumDict(_, _)
EnumDict(b, k) ==
    IF k = 0 THEN <<>>
    ELSE LET prev == EnumDict(b, k - 1)
             last_values == [j \in 1..Len(prev) |-> prev[j][2]]
             v == IF b[k][2].t = "auto" THEN PyInt(GenerateNextValue(last_values))
                  ELSE b[k][2]
         IN Append(prev, <<b[k][1], v>>)

\* Assigning a member name twice in a class body raises TypeError.
NamesUnique(b) == \A i, j \in 1..Len(b) : b[i][1] = b[j][1] => i = j

NoClass == [name |-> "", member_names |-> <<>>, member_map |-> <<>>]

\* The metaclass builds the members in definition order.  A name whose value
\* equals that of an earlier member becomes an alias of that member: it is
\* entered in member_map but not in member_names, and no object is created.
RECURSIVE EnumMetaNew(_, _)
EnumMetaNew(d, k) ==
    IF k = 0 THEN [name |-> "Card", member_names |-> <<>>, member_map |-> <<>>]
    ELSE LET c == EnumMetaNew(d, k - 1)
             nm == d[k][1]
             v == d[k][2]
             canon == {n \in DOMAIN c.member_map : ValueEq(c.member_map[n].value, v)}
         IN IF canon # {}
            THEN [c EXCEPT !.member_map =
                     (nm :> c.member_map[CHOOSE n \in canon : TRUE]) @@ @]
            ELSE [c EXCEPT !.member_names = Append(@, nm),
                           !.member_map =
                     (nm :> [id |-> k, name |-> nm, value |-> v]) @@ @]

\* The class object the class statement binds to Card.
EnumNew(b) == EnumMetaNew(EnumDict(b, Len(b)), Len(b))

-----------------------------------------------------------------------------
(* Operations on the class and its members.                                *)

HasAttr(c, name) == name \in DOMAIN c.member_map
GetAttr(c, name) == c.member_map[name]

NoCard == [id |-> 0, name |-> "", value |-> PyInt(0)]

\* iter(Card): the members named in member_names, in that order.
EnumIter(c) == [k \in 1..Len(c.member_names) |-> c.member_map[c.member_names[k]]]

\* Mutant: an __eq__ that declines every comparison.
EnumEqNever(a, b) == FALSE

\* Enum defines no __eq__: == is object identity.
EnumEq(a, b) == a.id = b.id

\* x in list: some element is x or equals x.
ListContains(list, x) ==
    \E k \in 1..Len(list) : list[k].id = x.id \/ EnumEq(list[k], x)

\* repr(member): class name, member name and the repr of the value.
EnumRepr(c, m) == "<" \o c.name \o "." \o m.name \o ": " \o PyRepr(m.value) \o ">"

\* Mutant: __str__ falls back to __repr__.
EnumStrAsRepr(c, m) == EnumRepr(c, m)

\* str(member): class name and member name.
EnumStr(c, m) == c.name \o "." \o m.name

\* Mutant: the membership list holds CLUBS alone.
ColorClubsOnly(c, self) ==
    IF ~HasAttr(c, "CLUBS") THEN "AttributeError"
    ELSE IF ListContains(<<GetAttr(c, "CLUBS")>>, self) THEN "Black" ELSE "Red"

\* Mutant: a misspelt member name, self.SPADE.
ColorTypo(c, self) ==
    IF ~(HasAttr(c, "CLUBS") /\ HasAttr(c, "SPADE")) THEN "AttributeError"
    ELSE IF ListContains(<<GetAttr(c, "CLUBS"), GetAttr(c, "SPADE")>>, self)
         THEN "Black"
         ELSE "Red"

\* Card.color (lines 9-13); "AttributeError" when self.CLUBS or self.SPADES
\* does not resolve.
Color(c, self) ==
    IF ~(HasAttr(c, "CLUBS") /\ HasAttr(c, "SPADES")) THEN "AttributeError"
    ELSE IF ListContains(<<GetAttr(c, "CLUBS"), GetAttr(c, "SPADES")>>, self)
         THEN "Black"
         ELSE "Red"

-----------------------------------------------------------------------------
(* The script.                                                             *)

Init ==
    /\ body \in {f \in [Runs -> {ClassBody(<<a, b>>) : a, b \in TagPool}] :
                   /\ f[1] = CardBody
                   /\ f[2][3][2] # f[2][4][2]}
    /\ cls = [r \in Runs |-> NoClass]
    /\ pc = [r \in Runs |-> "class"]
    /\ it = [r \in Runs |-> 0]
    /\ card = [r \in Runs |-> NoCard]
    /\ out = [r \in Runs |-> <<>>]
    /\ exitcode = [r \in Runs |-> -1]
    /\ yielded = [r \in Runs |-> <<>>]

\* An uncaught exception: the interpreter exits with status 1.
Raise(r) ==
    /\ pc' = [pc EXCEPT ![r] = "error"]
    /\ exitcode' = [exitcode EXCEPT ![r] = 1]

\* print(line): the line goes to standard output; control moves to statement next.
WriteLine(r, line, next) ==
    /\ out' = [out EXCEPT ![r] = Append(@, line)]
    /\ pc' = [pc EXCEPT ![r] = next]

\* Lines 3-13: the class statement.
DefineClass(r) ==
    /\ pc[r] = "class"
    /\ IF NamesUnique(body[r])
       THEN /\ cls' = [cls EXCEPT ![r] = EnumNew(body[r])]
            /\ pc' = [pc EXCEPT ![r] = "for"]
            /\ UNCHANGED exitcode
       ELSE Raise(r) /\ UNCHANGED cls
    /\ UNCHANGED <<body, it, card, out, yielded>>

\* Mutant: the iterator advances by two and skips every other member.
LoopNextSkip(r) ==
    /\ pc[r] = "for"
    /\ it[r] < Len(EnumIter(cls[r]))
    /\ card' = [card EXCEPT ![r] = EnumIter(cls[r])[it[r] + 1]]
    /\ it' = [it EXCEPT ![r] = @ + 2]
    /\ yielded' = [yielded EXCEPT ![r] = Append(@, EnumIter(cls[r])[it[r] + 1])]
    /\ pc' = [pc EXCEPT ![r] = "str"]
    /\ UNCHANGED <<body, cls, out, exitcode>>

\* Line 16: the iterator produces the next member and binds it to card.
LoopNext(r) ==
    /\ pc[r] = "for"
    /\ it[r] < Len(EnumIter(cls[r]))
    /\ card' = [card EXCEPT ![r] = EnumIter(cls[r])[it[r] + 1]]
    /\ it' = [it EXCEPT ![r] = @ + 1]
    /\ yielded' = [yielded EXCEPT ![r] = Append(@, EnumIter(cls[r])[it[r] + 1])]
    /\ pc' = [pc EXCEPT ![r] = "str"]
    /\ UNCHANGED <<body, cls, out, exitcode>>

\* Line 16: the iterator is exhausted and the loop ends.
LoopExit(r) ==
    /\ pc[r] = "for"
    /\ it[r] >= Len(EnumIter(cls[r]))
    /\ pc' = [pc EXCEPT ![r] = "eq_label"]
    /\ UNCHANGED <<body, cls, it, card, out, exitcode, yielded>>

\* Line 17.
PrintStr(r) ==
    /\ pc[r] = "str"
    /\ WriteLine(r, "As a string: " \o EnumStr(cls[r], card[r]), "repr_label")
    /\ UNCHANGED <<body, cls, it, card, exitcode, yielded>>

\* Mutant: the label line is not written.
PrintReprLabelOmitted(r) ==
    /\ pc[r] = "repr_label"
    /\ pc' = [pc EXCEPT ![r] = "repr"]
    /\ UNCHANGED <<body, cls, it, card, out, exitcode, yielded>>

\* Line 19.
PrintReprLabel(r) ==
    /\ pc[r] = "repr_label"
    /\ WriteLine(r, "As a repr: ", "repr")
    /\ UNCHANGED <<body, cls, it, card, exitcode, yielded>>

\* Mutant: repr() stores the text it produced as the member's value.
PrintReprNormalising(r) ==
    /\ pc[r] = "repr"
    /\ WriteLine(r, EnumRepr(cls[r], card[r]), "color")
    /\ cls' = [cls EXCEPT ![r].member_map[card[r].name].value =
                              PyStr(PyRepr(card[r].value))]
    /\ UNCHANGED <<body, it, card, exitcode, yielded>>

\* Line 20.
PrintRepr(r) ==
    /\ pc[r] = "repr"
    /\ WriteLine(r, EnumRepr(cls[r], card[r]), "color")
    /\ UNCHANGED <<body, cls, it, card, exitcode, yielded>>

\* Mutant: color() caches its result in the member's value.
PrintColorCaching(r) ==
    /\ pc[r] = "color"
    /\ Color(cls[r], card[r]) # "AttributeError"
    /\ WriteLine(r, Color(cls[r], card[r]), "sep")
    /\ cls' = [cls EXCEPT ![r].member_map[card[r].name].value =
                              PyStr(Color(cls[r], card[r]))]
    /\ UNCHANGED <<body, it, card, exitcode, yielded>>

\* Line 21.
PrintColor(r) ==
    /\ pc[r] = "color"
    /\ IF Color(cls[r], card[r]) = "AttributeError"
       THEN Raise(r) /\ UNCHANGED out
       ELSE WriteLine(r, Color(cls[r], card[r]), "sep") /\ UNCHANGED exitcode
    /\ UNCHANGED <<body, cls, it, card, yielded>>

\* Mutant: the separator is written between blocks only, not after the last.
PrintSepBetween(r) ==
    /\ pc[r] = "sep"
    /\ IF it[r] < Len(EnumIter(cls[r]))
       THEN WriteLine(r, "-----", "for")
       ELSE pc' = [pc EXCEPT ![r] = "for"] /\ UNCHANGED out
    /\ UNCHANGED <<body, cls, it, card, exitcode, yielded>>

\* Line 22.
PrintSep(r) ==
    /\ pc[r] = "sep"
    /\ WriteLine(r, "-----", "for")
    /\ UNCHANGED <<body, cls, it, card, exitcode, yielded>>

\* Line 24.
PrintEqLabel(r) ==
    /\ pc[r] = "eq_label"
    /\ WriteLine(r, "Are they equal?", "eq")
    /\ UNCHANGED <<body, cls, it, card, exitcode, yielded>>

\* Line 25.
PrintEq(r) ==
    /\ pc[r] = "eq"
    /\ IF HasAttr(cls[r], "HEARTS")
       THEN /\ WriteLine(r, PyStrBool(EnumEq(GetAttr(cls[r], "HEARTS"),
                                         GetAttr(cls[r], "HEARTS"))), "end")
            /\ UNCHANGED exitcode
       ELSE Raise(r) /\ UNCHANGED out
    /\ UNCHANGED <<body, cls, it, card, yielded>>

\* The end of the script: the interpreter exits with status 0.
Exit(r) ==
    /\ pc[r] = "end"
    /\ pc' = [pc EXCEPT ![r] = "done"]
    /\ exitcode' = [exitcode EXCEPT ![r] = 0]
    /\ UNCHANGED <<body, cls, it, card, out, yielded>>

RunStep(r) ==
    \/ DefineClass(r)
    \/ LoopNext(r)
    \/ LoopExit(r)
    \/ PrintStr(r)
    \/ PrintReprLabel(r)
    \/ PrintRepr(r)
    \/ PrintColor(r)
    \/ PrintSep(r)
    \/ PrintEqLabel(r)
    \/ PrintEq(r)
    \/ Exit(r)

Next == \E r \in Runs : RunStep(r)

Spec == Init /\ [][Next]_vars

\* The interpreter runs the script to its end: a run that can take a step
\* eventually takes it.
LiveSpec == Spec /\ \A r \in Runs : WF_vars(RunStep(r))

-----------------------------------------------------------------------------
(* Properties.                                                             *)

\* The member names in the order the class body declares them.
DeclOrder == <<"HEARTS", "DIAMONDS", "CLUBS", "SPADES">>
DeclNames == {DeclOrder[k] : k \in 1..Len(DeclOrder)}
BlackNames == {"CLUBS", "SPADES"}

\* The class statement of run r has run.
Defined(r) == cls[r] # NoClass

\* The names of a sequence of members.
NamesOf(ms) == [k \in 1..Len(ms) |-> ms[k].name]

\* The lines both runs have written so far.
Common == 1..(IF Len(out[1]) < Len(out[2]) THEN Len(out[1]) ELSE Len(out[2]))

\* The member whose block holds output line j, and the line's place in the block.
BlockOf(j) == (j - 1) \div 5 + 1
PlaceOf(j) == (j - 1) % 5

\* C1: for every member v, color() gives "Black" exactly when v is CLUBS or
\* SPADES and "Red" exactly when v is HEARTS or DIAMONDS, never anything else;
\* the classification line the script has printed for a member is that result.
C1_ColorPartition ==
    \A r \in Runs : Defined(r) =>
        /\ \A nm \in DeclNames :
              /\ HasAttr(cls[r], nm)
              /\ Color(cls[r], GetAttr(cls[r], nm)) \in {"Black", "Red"}
              /\ Color(cls[r], GetAttr(cls[r], nm)) = "Black" <=> nm \in BlackNames
              /\ Color(cls[r], GetAttr(cls[r], nm)) = "Red" <=> nm \in {"HEARTS", "DIAMONDS"}
        /\ \A j \in 1..Len(out[r]) :
              (j <= 20 /\ PlaceOf(j) = 3) =>
                  out[r][j] = IF DeclOrder[BlockOf(j)] \in BlackNames THEN "Black" ELSE "Red"

\* color() has been called on all four members of run 1.
C1_Witness == Len(out[1]) >= 19 /\ out[1][4] = "Red" /\ out[1][9] = "Red"
              /\ out[1][14] = "Black" /\ out[1][19] = "Black"

\* C2: any two differently named members compare unequal and have different
\* values; no name is an alias, so the class has exactly four members.
C2_DistinctVariants ==
    \A r \in Runs : Defined(r) =>
        /\ \A n1, n2 \in DeclNames :
              /\ HasAttr(cls[r], n1) /\ HasAttr(cls[r], n2)
              /\ n1 # n2 => /\ ~EnumEq(GetAttr(cls[r], n1), GetAttr(cls[r], n2))
                            /\ ~ValueEq(GetAttr(cls[r], n1).value, GetAttr(cls[r], n2).value)
        /\ Len(cls[r].member_names) = 4
        /\ Cardinality({GetAttr(cls[r], n) : n \in DOMAIN cls[r].member_map}) = 4

\* Both classes are built; run 2 gives CLUBS an int value, next to auto()'s.
C2_Witness == Defined(1) /\ Defined(2) /\ body[2][3][2].t = "int"

\* C3: every member equals itself, and the comparison the script prints last
\* is True.
C3_Reflexive ==
    \A r \in Runs : Defined(r) =>
        /\ \A nm \in DOMAIN cls[r].member_map :
              EnumEq(GetAttr(cls[r], nm), GetAttr(cls[r], nm))
        /\ pc[r] \in {"end", "done"} =>
              Len(out[r]) > 0 /\ out[r][Len(out[r])] = "True"

\* Both runs have printed the comparison.
C3_Witness == \A r \in Runs : pc[r] = "done" /\ out[r][22] = "True"

\* C4: the loop's iterator produces HEARTS, DIAMONDS, CLUBS, SPADES, each once
\* and in that order, four members in all; and an iteration started in any
\* state of the run, during or after the loop, would produce the same sequence.
C4_Iteration ==
    \A r \in Runs :
        /\ Defined(r) => NamesOf(EnumIter(cls[r])) = DeclOrder
        /\ Len(yielded[r]) <= 4
        /\ NamesOf(yielded[r]) = SubSeq(DeclOrder, 1, Len(yielded[r]))
        /\ \A k \in 1..Len(yielded[r]) : yielded[r][k] = EnumIter(cls[r])[k]
        /\ \A j, k \in 1..Len(yielded[r]) : yielded[r][j] = yielded[r][k] => j = k
        /\ pc[r] \in {"eq_label", "eq", "end", "done"} => Len(yielded[r]) = 4

\* Run 1 has finished its loop and run 2 is in the middle of its own.
C4_Witness == pc[1] = "done" /\ Len(yielded[1]) = 4 /\ pc[2] = "color" /\ it[2] = 2

\* C5: the first twenty lines are four blocks of five, one per member in
\* declaration order: "As a string: " and the member's str, "As a repr: ",
\* the member's repr, its classification, "-----".  The classification line
\* is "Red" in the HEARTS block and "Black" in the CLUBS block.
C5_Blocks ==
    /\ \A r \in Runs : \A j \in 1..Len(out[r]) :
          j <= 20 =>
              /\ HasAttr(cls[r], DeclOrder[BlockOf(j)])
              /\ LET nm == DeclOrder[BlockOf(j)]
                     m == GetAttr(cls[r], nm)
                 IN out[r][j] =
                        CASE PlaceOf(j) = 0 -> "As a string: " \o EnumStr(cls[r], m)
                          [] PlaceOf(j) = 1 -> "As a repr: "
                          [] PlaceOf(j) = 2 -> EnumRepr(cls[r], m)
                          [] PlaceOf(j) = 3 -> IF nm \in BlackNames THEN "Black" ELSE "Red"
                          [] OTHER -> "-----"
    /\ \A r \in Runs : /\ Len(out[r]) >= 4 => out[r][4] = "Red"
                       /\ Len(out[r]) >= 14 => out[r][14] = "Black"
    /\ Len(out[1]) >= 5 =>
          SubSeq(out[1], 1, 5) =
              <<"As a string: Card.HEARTS", "As a repr: ", "<Card.HEARTS: 1>", "Red", "-----">>
    /\ Len(out[1]) >= 15 =>
          SubSeq(out[1], 11, 15) =
              <<"As a string: Card.CLUBS", "As a repr: ", "<Card.CLUBS: 'C'>", "Black", "-----">>

\* Both runs have written their four blocks.
C5_Witness == Len(out[1]) >= 20 /\ Len(out[2]) >= 20

\* C6: "Are they equal?" is line 21 and nowhere else, written when the loop
\* has produced all four members; the boolean is line 22; a finished run has
\* written exactly 22 lines and no run ever writes more.
C6_FinalLines ==
    \A r \in Runs :
        /\ Len(out[r]) <= 22
        /\ \A j \in 1..Len(out[r]) :
              /\ out[r][j] = "Are they equal?" <=> j = 21
              /\ out[r][j] \in {"True", "False"} <=> j = 22
        /\ Len(out[r]) >= 21 => Len(yielded[r]) = 4 /\ pc[r] \in {"eq", "end", "done"}
        /\ Len(out[r]) >= 22 => out[r][22] = "True"
        /\ pc[r] \in {"end", "done"} => Len(out[r]) = 22

\* Both runs have finished.
C6_Witness == \A r \in Runs : pc[r] = "done" /\ Len(out[r]) = 22

\* C7: no step raises, and every run ends with exit status 0 after exactly
\* four iterations of the loop.
C7_Terminates ==
    /\ [](\A r \in Runs : /\ pc[r] # "error"
                          /\ exitcode[r] \in {-1, 0}
                          /\ it[r] <= 4)
    /\ <>[](\A r \in Runs : pc[r] = "done" /\ exitcode[r] = 0 /\ it[r] = 4)

\* Both runs have exited with status 0.
C7_Witness == \A r \in Runs : pc[r] = "done" /\ exitcode[r] = 0 /\ it[r] = 4

\* C8 as claimed: two runs that differ only in the values attached to CLUBS
\* and SPADES write the same output, line for line.
C8_OutputIndependent == \A j \in Common : out[1][j] = out[2][j]

\* C8 as amended: the two runs agree on every line except the repr lines of
\* the CLUBS and SPADES blocks (lines 13 and 18); there they agree exactly
\* when the member has the same value in both runs.
C8_OutputIndependentExceptRepr ==
    \A j \in Common :
        /\ j \notin {13, 18} => out[1][j] = out[2][j]
        /\ j = 13 => (out[1][j] = out[2][j] <=> ValueEq(body[1][3][2], body[2][3][2]))
        /\ j = 18 => (out[1][j] = out[2][j] <=> ValueEq(body[1][4][2], body[2][4][2]))

\* Both runs have finished, and they differ in both values.
C8_Witness ==
    /\ \A r \in Runs : pc[r] = "done"
    /\ out[1][13] # out[2][13]
    /\ out[1][18] # out[2][18]

\* C9: once the class is defined no step changes it: the same members, with
\* the same names and values, in every later state; the class body never
\* changes; and the step that calls color() changes nothing of its run but
\* the output, to which it adds the result.
C9_Immutable ==
    [][\A r \in Runs :
          /\ Defined(r) => cls'[r] = cls[r]
          /\ body'[r] = body[r]
          /\ (pc[r] = "color" /\ pc'[r] # "color") =>
                /\ it'[r] = it[r] /\ card'[r] = card[r]
                /\ exitcode'[r] = exitcode[r] /\ yielded'[r] = yielded[r]
                /\ out'[r] = Append(out[r], Color(cls[r], card[r]))]_vars

\* Both runs have finished, every color() call made, with all four members.
C9_Witness ==
    \A r \in Runs : pc[r] = "done" /\ cls[r].member_names = DeclOrder /\ Len(out[r]) = 22

\* C10: str and repr of a member give the same result whenever they are
\* called: no step changes the str or the repr of any member, the lines the
\* script wrote from them are what the calls give in every later state, and
\* the steps that call them change nothing of their run but the output.
C10_PureStrRepr ==
    /\ [](\A r \in Runs : \A j \in 1..Len(out[r]) :
            (j <= 20 /\ BlockOf(j) <= Len(yielded[r])) =>
                /\ PlaceOf(j) = 0 =>
                      out[r][j] = "As a string: " \o EnumStr(cls[r], yielded[r][BlockOf(j)])
                /\ PlaceOf(j) = 2 =>
                      out[r][j] = EnumRepr(cls[r], yielded[r][BlockOf(j)]))
    /\ [][\A r \in Runs :
            /\ \A n \in DOMAIN cls[r].member_map :
                  /\ n \in DOMAIN cls'[r].member_map
                  /\ EnumStr(cls'[r], GetAttr(cls'[r], n)) = EnumStr(cls[r], GetAttr(cls[r], n))
                  /\ EnumRepr(cls'[r], GetAttr(cls'[r], n)) = EnumRepr(cls[r], GetAttr(cls[r], n))
            /\ (pc[r] \in {"str", "repr"} /\ pc'[r] # pc[r]) =>
                  /\ cls'[r] = cls[r] /\ body'[r] = body[r]
                  /\ it'[r] = it[r] /\ card'[r] = card[r]
                  /\ exitcode'[r] = exitcode[r] /\ yielded'[r] = yielded[r]
                  /\ Len(out'[r]) = Len(out[r]) + 1]_vars

\* Both runs have printed the str and the repr of all four members.
C10_Witness == \A r \in Runs : Len(out[r]) >= 18 /\ Len(yielded[r]) = 4

====
